---- MODULE Spec2Model ----
(***************************************************************************)
(* migres: cursor-based migrations for PostgreSQL (src/cli.js).            *)
(*                                                                         *)
(* The model holds the migrations folder, the target database (the        *)
(* _migrations table and the effect of the scripts applied so far), the   *)
(* server session of the transaction client, and the one invocation of    *)
(* the cli that is running or has last run.  An invocation of commit or   *)
(* rollback advances one await at a time; create is a single step.         *)
(***************************************************************************)
EXTENDS Integers, Sequences, FiniteSets, TLC

\* Bound: how many migration directories `migres create` makes in a run.
MaxUnits == 4

\* Bound: how many of them a failing writeFileSync leaves without both scripts.
MaxHalfMade == 1

\* The migration names typed at the create prompt ("new_migration" is what an
\* empty answer becomes).
Slugs == {"new_migration"}

\* The commands that run commitOrRollback.
Cmds == {"commit", "rollback"}

(***************************************************************************)
(* Directory entries.  An entry made by create is `${Date.now()}_${slug}`: *)
(* ts is the rank of its timestamp.  A hidden entry starts with "." and   *)
(* sorts before every digit.                                                *)
(***************************************************************************)
Unit(ts, slug) == [hidden |-> FALSE, ts |-> ts, slug |-> slug]

HiddenEntry == [hidden |-> TRUE, ts |-> 0, slug |-> ".gitkeep"]

NoEntry == [hidden |-> FALSE, ts |-> 0, slug |-> ""]

\* A directory that create did not make, named by the digits of n alone
\* ("0" for n = 0), which the slug "#" stands for; it sorts by those digits
\* among the timestamps.
Numeral(n) == [hidden |-> FALSE, ts |-> n, slug |-> "#"]

ZeroName == Numeral(0)

Units == {Unit(t, s) : t \in 1..MaxUnits, s \in Slugs} \cup {ZeroName}

\* subDir.startsWith(".")
startsWithDot(e) == e.hidden

\* Byte order of two entry names, as strcmp orders them.
NameBefore(a, b) ==
    \/ a.hidden /\ ~b.hidden
    \/ a.hidden = b.hidden /\ a.ts < b.ts

\* fs.readdirSync(pathToMigrations): the entries of the folder, which the
\* platform lists in ascending name order.
RECURSIVE readdirSync(_)
readdirSync(entries) ==
    IF entries = {} THEN <<>>
    ELSE LET first == CHOOSE e \in entries : \A o \in entries \ {e} : NameBefore(e, o)
         IN  <<first>> \o readdirSync(entries \ {first})

(***************************************************************************)
(* JavaScript array primitives, with 0-based indices as in the source.     *)
(***************************************************************************)
Max(a, b) == IF a > b THEN a ELSE b
Min(a, b) == IF a < b THEN a ELSE b

\* Array.prototype.slice(start, end): negative indices count from the end.
JsSlice(arr, start, end) ==
    LET len  == Len(arr)
        from == IF start < 0 THEN Max(len + start, 0) ELSE Min(start, len)
        to   == IF end < 0 THEN Max(len + end, 0) ELSE Min(end, len)
    IN  SubSeq(arr, from + 1, to)

\* Array.prototype.slice(start)
JsSliceFrom(arr, start) == JsSlice(arr, start, Len(arr))

\* Array.prototype.reverse()
JsReverse(arr) == [i \in 1..Len(arr) |-> arr[Len(arr) + 1 - i]]

\* arr[i]: <<x>> for an element, <<>> for undefined.
JsAt(arr, i) == IF 0 <= i /\ i < Len(arr) THEN <<arr[i + 1]>> ELSE <<>>

\* arr.findIndex(d => d === x), x as JsAt gives it: -1 when nothing matches.
JsFindIndex(arr, x) ==
    IF x = <<>> \/ \A i \in 1..Len(arr) : arr[i] # x[1] THEN -1
    ELSE (CHOOSE i \in 1..Len(arr) :
             arr[i] = x[1] /\ \A j \in 1..(i - 1) : arr[j] # x[1]) - 1

\* Number(name): <<n>> for a number, <<>> for NaN.  A name made by create
\* holds "_" and is no number; a name of digits alone is the number it spells.
NameToNumber(e) == IF e.slug = "#" THEN <<e.ts>> ELSE <<>>

\* Number(String(arr)).  String(arr) joins the names with ",": "" for the
\* empty array, which is 0; the one name itself for an array of one; and for
\* more a text holding ",", which is no number.
ArrayToNumber(arr) ==
    CASE Len(arr) = 0 -> <<0>>
      [] Len(arr) = 1 -> NameToNumber(arr[1])
      [] OTHER -> <<>>

\* The comparison `subset < 1` of an array with a number.
LessThanOne(arr) ==
    LET n == ArrayToNumber(arr) IN n # <<>> /\ n[1] < 1

(***************************************************************************)
(* The scripts.  A unit's directory lists its files; create writes         *)
(* `${name}_commit.sql` and `${name}_rollback.sql`, named here by their    *)
(* kind.  A file's content is the script of that kind of that unit.         *)
(***************************************************************************)
CommitFile == "commit"
RollbackFile == "rollback"

Script(unit, kind) == [text |-> "script", unit |-> unit, kind |-> kind]

Newline == [text |-> "\n", unit |-> NoEntry, kind |-> ""]

\* readFileAsync(path), path = resolve(dir, file)
readFileAsync(path) == Script(path.dir, path.file)

\* sql.reduce((sql, content) => sql.concat(content, "\n"), "")
RECURSIVE ConcatSql(_)
ConcatSql(contents) ==
    IF contents = <<>> THEN <<>>
    ELSE <<Head(contents), Newline>> \o ConcatSql(Tail(contents))

(***************************************************************************)
(* The database server.  A database is the _migrations table (whether it   *)
(* exists, and the cursor of each of its rows) and, for each unit, how     *)
(* many times its commit script has been applied net of its rollback       *)
(* script.  A session is idle, in an open transaction block or in an       *)
(* aborted one; `work` is what the session sees inside the block.           *)
(***************************************************************************)
CleanDb == [table |-> FALSE, rows |-> <<>>, applied |-> [u \in Units |-> 0]]

IdleSession == [state |-> "idle", work |-> CleanDb]

\* Mutant: the INSERT has no WHERE NOT exists guard.
DbBootstrapAlwaysInserts(d) ==
    [d EXCEPT !.table = TRUE,
              !.rows = IF d.table THEN Append(d.rows, -1) ELSE <<-1>>]

\* CREATE TABLE IF NOT EXISTS _migrations(...);
\* INSERT INTO _migrations(cursor) SELECT -1 WHERE NOT exists(SELECT 1 FROM _migrations)
DbBootstrap(d) ==
    [d EXCEPT !.table = TRUE,
              !.rows = IF d.table /\ d.rows # <<>> THEN d.rows ELSE <<-1>>]

\* UPDATE _migrations SET cursor = $1, completed = now(): every row.
DbUpdateCursor(d, newCursor) ==
    [d EXCEPT !.rows = [i \in DOMAIN d.rows |-> newCursor]]

\* One script of a unit: its commit script applies the unit, its rollback
\* script reverts it; the text of any other file changes no unit.
DbRunScript(d, script) ==
    [d EXCEPT !.applied[script.unit] =
                  CASE script.kind = CommitFile -> @ + 1
                    [] script.kind = RollbackFile -> @ - 1
                    [] OTHER -> @]

\* The statements of a query text, in order (a newline separates them).
Statements(sql) == SelectSeq(sql, LAMBDA t : t.text = "script")

\* The first n statements of a query, run in order.
RECURSIVE DbRunStatements(_, _, _)
DbRunStatements(d, stmts, n) ==
    IF n = 0 \/ stmts = <<>> THEN d
    ELSE DbRunStatements(DbRunScript(d, Head(stmts)), Tail(stmts), n - 1)

\* applied, with each unit of the sequence applied (by = 1) or reverted (by = -1) once.
AppliedPlus(applied, units, by) ==
    [u \in Units |-> applied[u] + (IF \E i \in 1..Len(units) : units[i] = u THEN by ELSE 0)]

\* const cursor = rows && rows[0] ? rows[0].cursor : -1
CursorOfRows(rows) == IF rows # <<>> THEN rows[1] ELSE -1

(***************************************************************************)
(* State.                                                                   *)
(***************************************************************************)
VARIABLES
    entries,  \* the entries of the migrations folder
    files,    \* files[u]: the listing of unit u's directory
    clock,    \* the rank Date.now() has at the next create
    db,       \* the committed state of the database
    session,  \* the server session of the transaction client
    inv,      \* the invocation that is running, or ran last
    pre,      \* history: the database when inv started
    wire,     \* history: what inv asked of its collaborators
    lastOp,   \* history: the last operation before inv that the server made durable
    peers     \* invocations that overlap on one database (none in Spec)

vars == <<entries, files, clock, db, session, inv, pre, wire, lastOp, peers>>

NoOp ==
    [cmd |-> "none", acked |-> FALSE, before |-> -1, after |-> -1, migrateTo |-> -1,
     units |-> <<>>]

\* Spec runs one invocation at a time.
NoPeers == <<>>

NoInvocation ==
    [pc |-> "idle", cmd |-> "none", all |-> FALSE, dirNames |-> <<>>,
     cursor |-> -1, subset |-> <<>>, migrateTo |-> -1, newCursor |-> -1,
     migrationDirPaths |-> <<>>, migrations |-> <<>>, sql |-> <<>>,
     outcome |-> "none", exitCode |-> -1]

QuietWire ==
    [sent |-> <<>>, ran |-> <<>>, gate |-> 0, cancelled |-> FALSE, durable |-> FALSE,
     readFailed |-> FALSE, shuffled |-> FALSE, contact |-> <<>>]

\* The units the operation of inv has run scripts of, in order.
UnitsRun == [i \in 1..Len(wire.ran) |-> wire.ran[i].unit]

\* What the next invocation remembers of inv: a commit or rollback whose
\* transaction became durable, and whether the cli saw it succeed.
Remember ==
    IF inv.cmd \in Cmds /\ wire.durable
    THEN [cmd |-> inv.cmd, acked |-> inv.outcome = "success", before |-> inv.cursor,
          after |-> inv.newCursor, migrateTo |-> inv.migrateTo, units |-> UnitsRun]
    ELSE lastOp

Init ==
    /\ entries \in {{}, {HiddenEntry}}
    /\ files = [u \in Units |-> <<>>]
    /\ clock = 1
    /\ db = CleanDb
    /\ session = IdleSession
    /\ inv = NoInvocation
    /\ pre = CleanDb
    /\ wire = QuietWire
    /\ lastOp = NoOp
    /\ peers = NoPeers

\* process.exit(code): the process ends and its connections close, which
\* ends any transaction block the server still holds for them.
Exit(i, outcome, code) == [i EXCEPT !.pc = "exited", !.outcome = outcome, !.exitCode = code]

NotRunning == inv.pc \in {"idle", "exited"}

(***************************************************************************)
(* create                                                                   *)
(***************************************************************************)
\* What is on disk when create stops: mkdirSync(newDir) threw, or one of the
\* two writeFileSync calls did, or none.
CreateStops == {"mkdir", "commitFile", "rollbackFile", "done"}

\* The directories on disk that lack one of their two script files.
HalfMade == {u \in entries : ~u.hidden /\ Len(files[u]) < 2}

Create(slug, stop) ==
    LET migrationName == Unit(clock, slug) IN
    /\ NotRunning
    /\ clock <= MaxUnits
    /\ stop \in {"commitFile", "rollbackFile"} => Cardinality(HalfMade) < MaxHalfMade
    /\ lastOp' = Remember
    /\ pre' = db
    /\ wire' = QuietWire
    /\ IF migrationName \in entries
       THEN /\ inv' = Exit([NoInvocation EXCEPT !.cmd = "create"], "exists", 1)
            /\ UNCHANGED <<entries, files, clock>>
       ELSE /\ inv' = Exit([NoInvocation EXCEPT !.cmd = "create"],
                           IF stop = "done" THEN "success" ELSE "fsError",
                           IF stop = "done" THEN 0 ELSE 1)
            /\ entries' = IF stop = "mkdir" THEN entries
                          ELSE entries \cup {migrationName}
            /\ files' = [files EXCEPT ![migrationName] =
                            CASE stop = "done" -> <<CommitFile, RollbackFile>>
                              [] stop = "rollbackFile" -> <<CommitFile>>
                              [] OTHER -> <<>>]
            /\ clock' = IF stop = "mkdir" THEN clock ELSE clock + 1
    /\ UNCHANGED <<db, session, peers>>

(***************************************************************************)
(* commitOrRollback, one await at a time                                    *)
(***************************************************************************)
\* run() enters commitOrRollback for `commit` or `rollback`, with or without
\* --all; the migrations folder exists, so run() does not stop before it.
Start(cmd, all) ==
    /\ NotRunning
    /\ inv' = [NoInvocation EXCEPT !.pc = "connTest", !.cmd = cmd, !.all = all]
    /\ pre' = db
    /\ wire' = QuietWire
    /\ lastOp' = Remember
    /\ UNCHANGED <<entries, files, clock, db, session, peers>>

\* await pool.query("SELECT 1")
ConnTest(ok) ==
    /\ inv.pc = "connTest"
    /\ wire' = [wire EXCEPT !.contact = Append(@, "SELECT 1")]
    /\ inv' = IF ok THEN [inv EXCEPT !.pc = "bootstrap"]
              ELSE Exit(inv, "connError", 1)
    /\ UNCHANGED <<entries, files, clock, db, session, pre, lastOp, peers>>

\* await pool.query("CREATE TABLE IF NOT EXISTS ...; INSERT ...").  The call
\* is outside every try: a rejection ends the process as the runtime ends an
\* unhandled rejection (with status 1, or 0 on runtimes that only warn).
Bootstrap(ok, code) ==
    /\ inv.pc = "bootstrap"
    /\ wire' = [wire EXCEPT !.contact = Append(@, "BOOTSTRAP")]
    /\ IF ok
       THEN /\ db' = DbBootstrap(db)
            /\ inv' = [inv EXCEPT !.pc = "readdir"]
       ELSE /\ db' = db
            /\ inv' = Exit(inv, "bootstrapRejected", code)
    /\ UNCHANGED <<entries, files, clock, session, pre, lastOp, peers>>

\* .filter(subDir => !subDir.startsWith(".")): the listing's own order is kept.
FilterHidden(listing) == SelectSeq(listing, LAMBDA subDir : ~startsWithDot(subDir))

\* fs.readdirSync(pathToMigrations).filter(subDir => !subDir.startsWith("."))
DirNamesOf(folder) == FilterHidden(readdirSync(folder))

\* try { dirNames = ... } catch (e) { ...; process.exit(1) }
ReadDir(ok) ==
    /\ inv.pc = "readdir"
    /\ wire' = [wire EXCEPT !.contact = Append(@, "READDIR")]
    /\ inv' = IF ok
              THEN [inv EXCEPT !.pc = "readCursor",
                               !.dirNames = DirNamesOf(entries)]
              ELSE Exit(inv, "catalogError", 1)
    /\ UNCHANGED <<entries, files, clock, db, session, pre, lastOp, peers>>

\* Mutant: commit slices from the cursor, not from the unit after it.
SubsetOfFromCursor(cmd, dirNames, cursor) ==
    IF cmd = "commit"
    THEN JsSliceFrom(dirNames, cursor)
    ELSE JsSliceFrom(JsReverse(JsSliceFrom(dirNames, 0)), Len(dirNames) - (cursor + 1))

\* Mutant: rollback forgets to reverse the catalog.
SubsetOfUnreversed(cmd, dirNames, cursor) ==
    IF cmd = "commit"
    THEN JsSliceFrom(dirNames, cursor + 1)
    ELSE JsSliceFrom(JsSliceFrom(dirNames, 0), Len(dirNames) - (cursor + 1))

\* Mutant: rollback slices one too far and drops the unit at the cursor.
SubsetOfDroppingLatest(cmd, dirNames, cursor) ==
    IF cmd = "commit"
    THEN JsSliceFrom(dirNames, cursor + 1)
    ELSE JsSliceFrom(JsReverse(JsSliceFrom(dirNames, 0)), Len(dirNames) - cursor)

\* subset = cmd === "commit" ? dirNames.slice(cursor + 1)
\*        : dirNames.slice(0).reverse().slice(dirNames.length - (cursor + 1))
SubsetOf(cmd, dirNames, cursor) ==
    IF cmd = "commit"
    THEN JsSliceFrom(dirNames, cursor + 1)
    ELSE JsSliceFrom(JsReverse(JsSliceFrom(dirNames, 0)), Len(dirNames) - (cursor + 1))

\* Mutant: the early return tests a length that is never negative.
NeverAlreadyThere(subset) == Len(subset) < 0

\* if(subset < 1) { ...; return process.exit(); }
AlreadyThere(subset) == LessThanOne(subset)

\* Mutant: the default migration point is the first unit of the subset.
MigrateToFirst(subset) == 0

\* let migrateTo = subset.length - 1
MigrateToAll(subset) == Len(subset) - 1

\* Mutant: commit, like rollback, writes the index before the selected unit.
NewCursorOfBehind(cmd, dirNames, subset, migrateTo) ==
    JsFindIndex(dirNames, JsAt(subset, migrateTo)) - 1

\* Mutant: rollback, like commit, writes the index of the selected unit.
NewCursorOfNoStepBack(cmd, dirNames, subset, migrateTo) ==
    JsFindIndex(dirNames, JsAt(subset, migrateTo))

\* newCursor = dirNames.findIndex(d => d === subset[migrateTo]), less 1 for rollback
NewCursorOf(cmd, dirNames, subset, migrateTo) ==
    IF cmd = "commit"
    THEN JsFindIndex(dirNames, JsAt(subset, migrateTo))
    ELSE JsFindIndex(dirNames, JsAt(subset, migrateTo)) - 1

\* Mutant: the slice stops before the selected unit.
MigrationDirPathsShort(subset, migrateTo) == JsSlice(subset, 0, migrateTo)

\* migrationDirPaths = subset.slice(0, migrateTo + 1).map(p => resolve(pathToMigrations, p))
MigrationDirPathsOf(subset, migrateTo) == JsSlice(subset, 0, migrateTo + 1)

\* The statements between the selection and the reading of the scripts.
Resolve(i, migrateTo) ==
    [i EXCEPT !.pc = "readDirs",
              !.migrateTo = migrateTo,
              !.newCursor = NewCursorOf(i.cmd, i.dirNames, i.subset, migrateTo),
              !.migrationDirPaths = MigrationDirPathsOf(i.subset, migrateTo)]

\* await pool.query("SELECT cursor FROM _migrations"), then the subset, the
\* early return and, with --all, the default migration point.
ReadCursor(ok, code) ==
    /\ inv.pc = "readCursor"
    /\ LET cursor == CursorOfRows(db.rows)
           subset == SubsetOf(inv.cmd, inv.dirNames, cursor)
           read   == [inv EXCEPT !.cursor = cursor, !.subset = subset]
       IN  IF ~ok \/ ~db.table
           THEN /\ inv' = Exit(inv, "cursorRejected", code)
                /\ wire' = [wire EXCEPT !.contact = Append(@, "SELECT cursor")]
           ELSE IF AlreadyThere(subset)
           THEN /\ inv' = Exit(read, "noop", 0)
                /\ wire' = [wire EXCEPT !.contact = Append(@, "SELECT cursor")]
           ELSE IF inv.all
           THEN /\ inv' = Resolve(read, MigrateToAll(subset))
                /\ wire' = [wire EXCEPT !.contact = Append(@, "SELECT cursor")]
           ELSE /\ inv' = [read EXCEPT !.pc = "select", !.migrateTo = MigrateToAll(subset)]
                /\ wire' = [wire EXCEPT !.contact = Append(@, "SELECT cursor"),
                                        !.gate = @ + 1]
    /\ UNCHANGED <<entries, files, clock, db, session, pre, lastOp, peers>>

\* Mutant: the catch of a cancelled selection reports it and goes on, with
\* the default migration point.
SelectDeafToCancel(choice) ==
    /\ inv.pc = "select"
    /\ inv' = Resolve(inv, IF choice = -1 THEN inv.migrateTo ELSE choice)
    /\ wire' = [wire EXCEPT !.cancelled = (choice = -1)]
    /\ UNCHANGED <<entries, files, clock, db, session, pre, lastOp, peers>>

\* [{value: migrateTo}] = await spawnSelection(subset): an offset of the
\* subset, or a cancellation (choice = -1).
Select(choice) ==
    /\ inv.pc = "select"
    /\ inv' = IF choice = -1 THEN Exit(inv, "cancelled", 1)
              ELSE Resolve(inv, choice)
    /\ wire' = [wire EXCEPT !.cancelled = (choice = -1)]
    /\ UNCHANGED <<entries, files, clock, db, session, pre, lastOp, peers>>

\* files => args.cmd === "commit" ? files[0] : files[1]
PickFile(cmd, listing) == IF cmd = "commit" THEN JsAt(listing, 0) ELSE JsAt(listing, 1)

\* Promise.all(promises): each promise stores its value in the slot of its
\* own index when it settles, so the result has the order of the input array
\* whatever the order of settling.
RECURSIVE Settle(_, _, _)
Settle(order, values, slots) ==
    IF order = <<>> THEN slots
    ELSE Settle(Tail(order), values,
                [slots EXCEPT ![Head(order)] = values[Head(order)]])

\* Mutant: the results are collected in the order the promises settle.
PromiseAllAsSettled(order, values) == [k \in 1..Len(order) |-> values[order[k]]]

PromiseAll(order, values) == Settle(order, values, [i \in 1..Len(values) |-> <<>>])

\* The orders in which n pending reads can complete.
SettleOrders(n) == Permutations(1..n)

InOrder(order) == \A k \in 1..Len(order) : order[k] = k

\* fileArrays = await Promise.all(migrationDirPaths.map(readDirAsync)), then
\* the path of each unit's script; resolve() throws on an undefined file.
\* The catch of this try reports and ends the process with status 1.
ReadDirs(ok, order) ==
    /\ inv.pc = "readDirs"
    /\ LET fileArrays == PromiseAll(order, [i \in 1..Len(inv.migrationDirPaths) |->
                                               files[inv.migrationDirPaths[i]]])
           picked == [i \in 1..Len(fileArrays) |-> PickFile(inv.cmd, fileArrays[i])]
           thrown == ~ok \/ \E i \in 1..Len(picked) : picked[i] = <<>>
       IN  /\ inv' = IF thrown
                     THEN Exit(inv, "readError", 1)
                     ELSE [inv EXCEPT !.pc = "readFiles",
                                      !.migrations =
                                          [i \in 1..Len(picked) |->
                                              [dir |-> inv.migrationDirPaths[i],
                                               file |-> picked[i][1]]]]
           /\ wire' = [wire EXCEPT !.readFailed = thrown]
    /\ UNCHANGED <<entries, files, clock, db, session, pre, lastOp, peers>>

\* Mutant: a failed read is handled by the catch of the transaction, which
\* sends ROLLBACK.
ReadFilesInsideTransactionTry(ok, order) ==
    /\ inv.pc = "readFiles"
    /\ inv' = IF ~ok THEN [inv EXCEPT !.pc = "catch"]
              ELSE [inv EXCEPT !.pc = "connect",
                               !.sql = ConcatSql(PromiseAll(order,
                                           [i \in 1..Len(inv.migrations) |->
                                               readFileAsync(inv.migrations[i])]))]
    /\ wire' = [wire EXCEPT !.readFailed = ~ok, !.shuffled = ok /\ ~InOrder(order)]
    /\ UNCHANGED <<entries, files, clock, db, session, pre, lastOp, peers>>

\* sql = await Promise.all(migrations.map(readFileAsync)), concatenated;
\* inside the same try as the listings.
ReadFiles(ok, order) ==
    /\ inv.pc = "readFiles"
    /\ inv' = IF ~ok THEN Exit(inv, "readError", 1)
              ELSE [inv EXCEPT !.pc = "connect",
                               !.sql = ConcatSql(PromiseAll(order,
                                           [i \in 1..Len(inv.migrations) |->
                                               readFileAsync(inv.migrations[i])]))]
    /\ wire' = [wire EXCEPT !.readFailed = ~ok, !.shuffled = ok /\ ~InOrder(order)]
    /\ UNCHANGED <<entries, files, clock, db, session, pre, lastOp, peers>>

\* const transaction = await debugClient(pool), outside the try
Connect(ok, code) ==
    /\ inv.pc = "connect"
    /\ inv' = IF ok THEN [inv EXCEPT !.pc = "begin"] ELSE Exit(inv, "clientRejected", code)
    /\ wire' = [wire EXCEPT !.shuffled = FALSE]
    /\ UNCHANGED <<entries, files, clock, db, session, pre, lastOp, peers>>

(***************************************************************************)
(* The migration transaction.  The server runs a statement inside the      *)
(* session's transaction block when one is open; outside a block a query   *)
(* is its own transaction, applied whole or not at all.                     *)
(***************************************************************************)
\* BEGIN
ServerBegin(sess, d) ==
    IF sess.state = "idle" THEN [state |-> "open", work |-> d] ELSE sess

\* A query that changes d to `part` before it fails, or to `whole` when it
\* does not fail: the session and the committed database after it.
ServerQuery(sess, d, part, whole, failed) ==
    CASE sess.state = "open" ->
             [session |-> [state |-> IF failed THEN "aborted" ELSE "open",
                           work |-> IF failed THEN part ELSE whole],
              db |-> d]
      [] sess.state = "idle" ->
             [session |-> sess, db |-> IF failed THEN d ELSE whole]
      [] OTHER -> [session |-> sess, db |-> d]

\* COMMIT: an open block becomes durable, an aborted one is rolled back.
ServerCommit(sess, d) ==
    [session |-> IdleSession,
     db |-> IF sess.state = "open" THEN sess.work ELSE d]

\* ROLLBACK, and equally the closing of the connection.
ServerRollback(sess, d) == [session |-> IdleSession, db |-> d]

\* What the session works on: its block, or the committed database.
Seen(sess, d) == IF sess.state = "idle" THEN d ELSE sess.work

\* Mutant: BEGIN goes to the pool, not to the transaction client, whose
\* session therefore opens no block.
TxBeginOnPool(failed) ==
    /\ inv.pc = "begin"
    /\ wire' = [wire EXCEPT !.sent = Append(@, "BEGIN")]
    /\ inv' = [inv EXCEPT !.pc = IF failed THEN "catch" ELSE "sql"]
    /\ UNCHANGED <<entries, files, clock, db, session, pre, lastOp, peers>>

\* await transaction.query("BEGIN")
TxBegin(failed) ==
    /\ inv.pc = "begin"
    /\ wire' = [wire EXCEPT !.sent = Append(@, "BEGIN")]
    /\ session' = IF failed THEN session ELSE ServerBegin(session, db)
    /\ inv' = [inv EXCEPT !.pc = IF failed THEN "catch" ELSE "sql"]
    /\ UNCHANGED <<entries, files, clock, db, pre, lastOp, peers>>

\* await transaction.query(sql): failAt = 0 when every statement succeeds,
\* else the position of the statement that fails.
TxSql(failAt) ==
    /\ inv.pc = "sql"
    /\ LET stmts == Statements(inv.sql)
           ranOk == IF failAt = 0 THEN Len(stmts) ELSE failAt - 1
           now   == Seen(session, db)
           after == ServerQuery(session, db,
                                DbRunStatements(now, stmts, ranOk),
                                DbRunStatements(now, stmts, Len(stmts)),
                                failAt # 0)
       IN  /\ failAt \in 0..Len(stmts)
           /\ wire' = [wire EXCEPT !.sent = Append(@, "SQL"),
                                   !.ran = @ \o SubSeq(stmts, 1, ranOk)]
           /\ session' = after.session
           /\ db' = after.db
           /\ inv' = [inv EXCEPT !.pc = IF failAt = 0 THEN "update" ELSE "catch"]
    /\ UNCHANGED <<entries, files, clock, pre, lastOp, peers>>

\* Mutant: the UPDATE goes to the pool, where it is a transaction of its own.
TxUpdateOnPool(failed) ==
    /\ inv.pc = "update"
    /\ wire' = [wire EXCEPT !.sent = Append(@, "UPDATE")]
    /\ db' = IF failed THEN db ELSE DbUpdateCursor(db, inv.newCursor)
    /\ inv' = [inv EXCEPT !.pc = IF failed THEN "catch" ELSE "commit"]
    /\ UNCHANGED <<entries, files, clock, session, pre, lastOp, peers>>

\* await transaction.query("UPDATE _migrations SET cursor = $1, completed = now()", [newCursor])
TxUpdate(failed) ==
    /\ inv.pc = "update"
    /\ LET now   == Seen(session, db)
           after == ServerQuery(session, db, now,
                                DbUpdateCursor(now, inv.newCursor), failed)
       IN  /\ wire' = [wire EXCEPT !.sent = Append(@, "UPDATE")]
           /\ session' = after.session
           /\ db' = after.db
           /\ inv' = [inv EXCEPT !.pc = IF failed THEN "catch" ELSE "commit"]
    /\ UNCHANGED <<entries, files, clock, pre, lastOp, peers>>

\* How COMMIT ends: acknowledged; refused by the server; or made durable by
\* the server with the acknowledgement lost on the way back.
CommitEnds == {"ok", "refused", "lost"}

\* Mutant: the success message and the exit come without COMMIT being sent;
\* the server rolls the open block back when the connection closes.
TxCommitNeverSent(end) ==
    /\ inv.pc = "commit"
    /\ LET after == ServerRollback(session, db)
       IN  /\ session' = after.session
           /\ db' = after.db
           /\ inv' = Exit(inv, "success", 0)
    /\ UNCHANGED <<entries, files, clock, pre, wire, lastOp, peers>>

\* await transaction.query("COMMIT"), then finally { release(); process.exit() }
TxCommit(end) ==
    /\ inv.pc = "commit"
    /\ LET after == IF end = "refused" THEN ServerRollback(session, db)
                    ELSE ServerCommit(session, db)
       IN  /\ wire' = [wire EXCEPT !.sent = Append(@, "COMMIT"),
                                   !.durable = (end # "refused")]
           /\ session' = after.session
           /\ db' = after.db
           /\ inv' = IF end = "ok" THEN Exit(inv, "success", 0)
                     ELSE [inv EXCEPT !.pc = "catch"]
    /\ UNCHANGED <<entries, files, clock, pre, lastOp, peers>>

\* Mutant: after its ROLLBACK the catch starts the transaction again.
TxCatchRetries(failed) ==
    /\ inv.pc = "catch"
    /\ LET after == ServerRollback(session, db)
       IN  /\ wire' = [wire EXCEPT !.sent = Append(@, "ROLLBACK")]
           /\ session' = after.session
           /\ db' = after.db
           /\ inv' = IF failed THEN Exit(inv, "txFailed", 0)
                     ELSE [inv EXCEPT !.pc = "begin"]
    /\ UNCHANGED <<entries, files, clock, pre, lastOp, peers>>

\* catch(e) { await transaction.query("ROLLBACK"); ...; process.exit(1) }
\* finally { transaction.release(); process.exit() }: when the ROLLBACK
\* itself rejects, the catch block is left before its process.exit(1).
TxCatch(failed) ==
    /\ inv.pc = "catch"
    /\ LET after == ServerRollback(session, db)
       IN  /\ wire' = [wire EXCEPT !.sent = Append(@, "ROLLBACK")]
           /\ session' = after.session
           /\ db' = after.db
           /\ inv' = Exit(inv, "txFailed", IF failed THEN 0 ELSE 1)
    /\ UNCHANGED <<entries, files, clock, pre, lastOp, peers>>

Next ==
    \/ \E slug \in Slugs, stop \in CreateStops : Create(slug, stop)
    \/ \E cmd \in Cmds, all \in BOOLEAN : Start(cmd, all)
    \/ \E ok \in BOOLEAN : ConnTest(ok)
    \/ \E ok \in BOOLEAN, code \in {0, 1} : Bootstrap(ok, code)
    \/ \E ok \in BOOLEAN : ReadDir(ok)
    \/ \E ok \in BOOLEAN, code \in {0, 1} : ReadCursor(ok, code)
    \/ \E choice \in -1..(Len(inv.subset) - 1) : Select(choice)
    \/ \E ok \in BOOLEAN, order \in SettleOrders(Len(inv.migrationDirPaths)) :
           ReadDirs(ok, order)
    \/ \E ok \in BOOLEAN, order \in SettleOrders(Len(inv.migrations)) :
           ReadFiles(ok, order)
    \/ \E ok \in BOOLEAN, code \in {0, 1} : Connect(ok, code)
    \/ \E failed \in BOOLEAN : TxBegin(failed)
    \/ \E failAt \in 0..MaxUnits : TxSql(failAt)
    \/ \E failed \in BOOLEAN : TxUpdate(failed)
    \/ \E end \in CommitEnds : TxCommit(end)
    \/ \E failed \in BOOLEAN : TxCatch(failed)

Spec == Init /\ [][Next]_vars

(***************************************************************************)
(* The folder as any platform may list it.  Spec lists every directory in  *)
(* ascending name order and holds only what create wrote.  fs.readdirSync  *)
(* and fs.readdir promise no order, and a unit's directory may hold a file *)
(* that create did not write: SpecFs starts from a folder of up to         *)
(* MaxListed units made earlier, each directory listed in any order and    *)
(* with or without one more file, and lists the folder in any order.       *)
(***************************************************************************)
MaxListed == 2
MaxApplied == 1

\* A file of a unit's directory that create did not write.
OtherFile == ".DS_Store"

\* The orders in which a directory of these entries can be listed.
Orderings(S) ==
    {l \in [1..Cardinality(S) -> S] : \A e \in S : \E i \in 1..Cardinality(S) : l[i] = e}

ListedUnits == {Unit(t, s) : t \in 1..MaxListed, s \in Slugs}

\* A unit's directory as create left it, listed in either order, or with one
\* more file and listed in ascending name order.
UnitListings ==
    Orderings({CommitFile, RollbackFile}) \cup {<<OtherFile, CommitFile, RollbackFile>>}

InitFs ==
    /\ entries \in SUBSET (ListedUnits \cup {HiddenEntry})
    /\ files \in [Units -> UnitListings \cup {<<>>}]
    /\ \A u \in Units : files[u] = <<>> <=> u \notin entries
    /\ clock = 1
    /\ db = CleanDb
    /\ session = IdleSession
    /\ inv = NoInvocation
    /\ pre = CleanDb
    /\ wire = QuietWire
    /\ lastOp = NoOp
    /\ peers = NoPeers

\* dirNames = fs.readdirSync(pathToMigrations).filter(...), the listing in
\* the order the platform gives it.
ReadDirAsListed(ok, listing) ==
    /\ inv.pc = "readdir"
    /\ wire' = [wire EXCEPT !.contact = Append(@, "READDIR")]
    /\ inv' = IF ok
              THEN [inv EXCEPT !.pc = "readCursor",
                               !.dirNames = FilterHidden(listing)]
              ELSE Exit(inv, "catalogError", 1)
    /\ UNCHANGED <<entries, files, clock, db, session, pre, lastOp, peers>>

\* A further invocation, while no unit has been run more than MaxApplied
\* times over.
StartAgain(cmd, all) ==
    /\ \A u \in Units : db.applied[u] \in (0 - MaxApplied)..MaxApplied
    /\ Start(cmd, all)

NextFs ==
    \/ \E cmd \in Cmds, all \in BOOLEAN : StartAgain(cmd, all)
    \/ \E ok \in BOOLEAN : ConnTest(ok)
    \/ \E ok \in BOOLEAN, code \in {0, 1} : Bootstrap(ok, code)
    \/ \E ok \in BOOLEAN, listing \in Orderings(entries) : ReadDirAsListed(ok, listing)
    \/ \E ok \in BOOLEAN, code \in {0, 1} : ReadCursor(ok, code)
    \/ \E choice \in -1..(Len(inv.subset) - 1) : Select(choice)
    \/ \E ok \in BOOLEAN, order \in SettleOrders(Len(inv.migrationDirPaths)) :
           ReadDirs(ok, order)
    \/ \E ok \in BOOLEAN, order \in SettleOrders(Len(inv.migrations)) :
           ReadFiles(ok, order)
    \/ \E ok \in BOOLEAN, code \in {0, 1} : Connect(ok, code)
    \/ \E failed \in BOOLEAN : TxBegin(failed)
    \/ \E failAt \in 0..MaxListed : TxSql(failAt)
    \/ \E failed \in BOOLEAN : TxUpdate(failed)
    \/ \E end \in CommitEnds : TxCommit(end)
    \/ \E failed \in BOOLEAN : TxCatch(failed)

SpecFs == InitFs /\ [][NextFs]_vars

(***************************************************************************)
(* The folder with a directory that create did not name.  No name is       *)
(* validated: SpecNames starts from a folder of any of the units of        *)
(* ListedUnits and a directory named "0", each with the two scripts, and   *)
(* lists in ascending name order as Spec does.                             *)
(***************************************************************************)
InitNames ==
    /\ entries \in SUBSET (ListedUnits \cup {ZeroName})
    /\ files = [u \in Units |-> IF u \in entries THEN <<CommitFile, RollbackFile>> ELSE <<>>]
    /\ clock = 1
    /\ db = CleanDb
    /\ session = IdleSession
    /\ inv = NoInvocation
    /\ pre = CleanDb
    /\ wire = QuietWire
    /\ lastOp = NoOp
    /\ peers = NoPeers

NextNames ==
    \/ \E cmd \in Cmds, all \in BOOLEAN : Start(cmd, all)
    \/ \E ok \in BOOLEAN : ConnTest(ok)
    \/ \E ok \in BOOLEAN, code \in {0, 1} : Bootstrap(ok, code)
    \/ \E ok \in BOOLEAN : ReadDir(ok)
    \/ \E ok \in BOOLEAN, code \in {0, 1} : ReadCursor(ok, code)
    \/ \E choice \in -1..(Len(inv.subset) - 1) : Select(choice)
    \/ \E ok \in BOOLEAN, order \in SettleOrders(Len(inv.migrationDirPaths)) :
           ReadDirs(ok, order)
    \/ \E ok \in BOOLEAN, order \in SettleOrders(Len(inv.migrations)) :
           ReadFiles(ok, order)
    \/ \E ok \in BOOLEAN, code \in {0, 1} : Connect(ok, code)
    \/ \E failed \in BOOLEAN : TxBegin(failed)
    \/ \E failAt \in 0..(MaxListed + 1) : TxSql(failAt)
    \/ \E failed \in BOOLEAN : TxUpdate(failed)
    \/ \E end \in CommitEnds : TxCommit(end)
    \/ \E failed \in BOOLEAN : TxCatch(failed)

SpecNames == InitNames /\ [][NextNames]_vars

(***************************************************************************)
(* Invocations that overlap.  Each is a process of its own with its own    *)
(* connections to the one database; db is what is committed, and what a    *)
(* process has done inside a transaction it has not committed is kept in   *)
(* its record until its commit.  The server runs READ COMMITTED: a         *)
(* statement sees what was committed when it started.  The steps of an     *)
(* invocation that touch nothing shared (the connection test, the          *)
(* listings, the selection, the reads of the scripts) are taken with the   *)
(* step before them and succeed; the scripts of different invocations      *)
(* take no locks against each other.                                       *)
(***************************************************************************)
MaxPeers == 2

Procs == 1..MaxPeers

NoPeer ==
    [pc |-> "idle", cmd |-> "none", cursor |-> -1, newCursor |-> -1, units |-> <<>>,
     made |-> FALSE, inserted |-> FALSE, locked |-> FALSE, writes |-> FALSE,
     outcome |-> "", seq |-> 0]

\* The units of the first n names of the catalog.
AppliedUpTo(n) ==
    [u \in Units |-> IF \E i \in 1..n : DirNamesOf(ListedUnits)[i] = u THEN 1 ELSE 0]

\* A database never bootstrapped, one whose _migrations table is empty, and
\* one left by earlier operations with its cursor at any unit.
RaceDbs ==
    {CleanDb, [CleanDb EXCEPT !.table = TRUE]}
        \cup {[table |-> TRUE, rows |-> <<k>>, applied |-> AppliedUpTo(k + 1)] :
                 k \in -1..(MaxListed - 1)}

InitRace ==
    /\ entries = ListedUnits
    /\ files = [u \in Units |->
                   IF u \in ListedUnits THEN <<CommitFile, RollbackFile>> ELSE <<>>]
    /\ clock = 1
    /\ db \in RaceDbs
    /\ session = IdleSession
    /\ inv = NoInvocation
    /\ pre = db
    /\ wire = QuietWire
    /\ lastOp = NoOp
    /\ peers = [p \in Procs |-> NoPeer]

Quiet == UNCHANGED <<entries, files, clock, session, inv, pre, wire, lastOp>>

\* A process in a transaction that it has not ended holds what it made.
Making(p) == peers[p].made

\* The number of the latest commit of a migration transaction.
LastSeq == LET S == {peers[p].seq : p \in Procs} IN CHOOSE m \in S : \A n \in S : n <= m

\* migres commit | rollback is launched; its SELECT 1 succeeds.
PeerStart(p, cmd) ==
    /\ peers[p].pc = "idle"
    /\ peers' = [peers EXCEPT ![p].pc = "bootstrap", ![p].cmd = cmd]
    /\ db' = db
    /\ Quiet

\* CREATE TABLE IF NOT EXISTS _migrations(...), the first statement of the
\* bootstrap query: nothing to do when the table is committed; else the
\* process makes it, or waits for the process that is making it.
PeerCreateTable(p) ==
    /\ peers[p].pc = "bootstrap"
    /\ peers' = IF db.table THEN [peers EXCEPT ![p].pc = "insert"]
                ELSE IF \E q \in Procs \ {p} : Making(q)
                     THEN [peers EXCEPT ![p].pc = "blocked"]
                     ELSE [peers EXCEPT ![p].pc = "insert", ![p].made = TRUE]
    /\ db' = db
    /\ Quiet

\* The process that made the table has committed: the waiting CREATE TABLE
\* fails on the catalog's unique index, and the rejection of pool.query is
\* not handled.
PeerCreateTableFails(p) ==
    /\ peers[p].pc = "blocked"
    /\ db.table
    /\ \A q \in Procs \ {p} : ~Making(q)
    /\ peers' = [peers EXCEPT ![p].pc = "exited", ![p].outcome = "bootstrapRejected"]
    /\ db' = db
    /\ Quiet

\* INSERT INTO _migrations(cursor) SELECT -1 WHERE NOT exists(SELECT 1 FROM
\* _migrations), the second statement: the subquery sees the committed rows.
PeerInsert(p) ==
    /\ peers[p].pc = "insert"
    /\ peers' = [peers EXCEPT ![p].pc = "bootstrapped",
                              ![p].inserted = (peers[p].made \/ db.rows = <<>>)]
    /\ db' = db
    /\ Quiet

\* The bootstrap query ends and its implicit transaction commits.
PeerBootstrapCommit(p) ==
    /\ peers[p].pc = "bootstrapped"
    /\ db' = [db EXCEPT !.table = TRUE,
                        !.rows = IF peers[p].inserted THEN Append(@, -1) ELSE @]
    /\ peers' = [peers EXCEPT ![p].pc = "readCursor", ![p].made = FALSE]
    /\ Quiet

\* SELECT cursor FROM _migrations, then the subset, the selection of
\* migrateTo, newCursor and the scripts.
PeerReadCursor(p, migrateTo) ==
    /\ peers[p].pc = "readCursor"
    /\ LET dirNames == DirNamesOf(entries)
           cursor == CursorOfRows(db.rows)
           subset == SubsetOf(peers[p].cmd, dirNames, cursor)
       IN  IF AlreadyThere(subset)
           THEN /\ migrateTo = 0
                /\ peers' = [peers EXCEPT ![p].pc = "exited", ![p].cursor = cursor,
                                          ![p].outcome = "noop"]
           ELSE /\ migrateTo \in 0..(Len(subset) - 1)
                /\ peers' = [peers EXCEPT
                       ![p].pc = "begin",
                       ![p].cursor = cursor,
                       ![p].newCursor = NewCursorOf(peers[p].cmd, dirNames, subset, migrateTo),
                       ![p].units = MigrationDirPathsOf(subset, migrateTo)]
    /\ db' = db
    /\ Quiet

\* BEGIN, then the scripts: their effects stay in the process's block.
PeerSql(p) ==
    /\ peers[p].pc = "begin"
    /\ peers' = [peers EXCEPT ![p].pc = "update"]
    /\ db' = db
    /\ Quiet

\* Mutant: the UPDATE is restricted to the cursor value the process read.
PeerUpdateIfUnmoved(p) ==
    /\ peers[p].pc = "update"
    /\ \A q \in Procs \ {p} : ~peers[q].locked
    /\ peers' = [peers EXCEPT ![p].pc = "commit", ![p].locked = TRUE,
                              ![p].writes = (CursorOfRows(db.rows) = peers[p].cursor)]
    /\ db' = db
    /\ Quiet

\* UPDATE _migrations SET cursor = $1, completed = now(): waits while another
\* transaction holds the lock of a row, then writes every committed row.
PeerUpdate(p) ==
    /\ peers[p].pc = "update"
    /\ \A q \in Procs \ {p} : ~peers[q].locked
    /\ peers' = [peers EXCEPT ![p].pc = "commit", ![p].locked = TRUE,
                              ![p].writes = TRUE]
    /\ db' = db
    /\ Quiet

\* COMMIT: the scripts' effects and the cursor become durable together.
PeerCommit(p) ==
    /\ peers[p].pc = "commit"
    /\ LET ran == [db EXCEPT !.applied =
                      AppliedPlus(@, peers[p].units,
                                  IF peers[p].cmd = "commit" THEN 1 ELSE -1)]
       IN  db' = IF peers[p].writes THEN DbUpdateCursor(ran, peers[p].newCursor) ELSE ran
    /\ peers' = [peers EXCEPT ![p].pc = "exited", ![p].locked = FALSE,
                              ![p].outcome = "success", ![p].seq = LastSeq + 1]
    /\ Quiet

\* A statement of the transaction fails; the catch sends ROLLBACK.
PeerCatch(p) ==
    /\ peers[p].pc \in {"begin", "update", "commit"}
    /\ peers' = [peers EXCEPT ![p].pc = "exited", ![p].locked = FALSE,
                              ![p].outcome = "txFailed"]
    /\ db' = db
    /\ Quiet

NextRace ==
    \/ \E p \in Procs, cmd \in Cmds : PeerStart(p, cmd)
    \/ \E p \in Procs : PeerCreateTable(p)
    \/ \E p \in Procs : PeerCreateTableFails(p)
    \/ \E p \in Procs : PeerInsert(p)
    \/ \E p \in Procs : PeerBootstrapCommit(p)
    \/ \E p \in Procs, migrateTo \in 0..(MaxListed - 1) : PeerReadCursor(p, migrateTo)
    \/ \E p \in Procs : PeerSql(p)
    \/ \E p \in Procs : PeerUpdate(p)
    \/ \E p \in Procs : PeerCommit(p)
    \/ \E p \in Procs : PeerCatch(p)

SpecRace == InitRace /\ [][NextRace]_vars

\* The steps of commitOrRollback in the order of its text, which has no loop
\* and no call of itself.
PcRank(pc) ==
    CASE pc = "connTest" -> 1
      [] pc = "bootstrap" -> 2
      [] pc = "readdir" -> 3
      [] pc = "readCursor" -> 4
      [] pc = "select" -> 5
      [] pc = "readDirs" -> 6
      [] pc = "readFiles" -> 7
      [] pc = "connect" -> 8
      [] pc = "begin" -> 9
      [] pc = "sql" -> 10
      [] pc = "update" -> 11
      [] pc = "commit" -> 12
      [] pc = "catch" -> 13
      [] pc = "exited" -> 14
      [] OTHER -> 0

\* The call a running invocation awaits settles, one way or the other.
Proceed ==
    \/ \E ok \in BOOLEAN : ConnTest(ok)
    \/ \E ok \in BOOLEAN, code \in {0, 1} : Bootstrap(ok, code)
    \/ \E ok \in BOOLEAN : ReadDir(ok)
    \/ \E ok \in BOOLEAN, code \in {0, 1} : ReadCursor(ok, code)
    \/ \E choice \in -1..(Len(inv.subset) - 1) : Select(choice)
    \/ \E ok \in BOOLEAN, order \in SettleOrders(Len(inv.migrationDirPaths)) :
           ReadDirs(ok, order)
    \/ \E ok \in BOOLEAN, order \in SettleOrders(Len(inv.migrations)) :
           ReadFiles(ok, order)
    \/ \E ok \in BOOLEAN, code \in {0, 1} : Connect(ok, code)
    \/ \E failed \in BOOLEAN : TxBegin(failed)
    \/ \E failAt \in 0..MaxUnits : TxSql(failAt)
    \/ \E failed \in BOOLEAN : TxUpdate(failed)
    \/ \E end \in CommitEnds : TxCommit(end)
    \/ \E failed \in BOOLEAN : TxCatch(failed)

(***************************************************************************)
(* Where an invocation stands.                                              *)
(***************************************************************************)
Exited == inv.pc = "exited"

\* The invocation has read the cursor and computed its subset.
CursorRead ==
    /\ inv.cmd \in Cmds
    /\ \/ inv.pc \in {"select", "readDirs", "readFiles", "connect", "begin",
                      "sql", "update", "commit", "catch"}
       \/ /\ Exited
          /\ inv.outcome \in {"noop", "cancelled", "readError", "clientRejected",
                              "txFailed", "success"}

\* The invocation has its migration point, chosen or defaulted by --all.
PointChosen == CursorRead /\ inv.pc # "select" /\ inv.outcome \notin {"noop", "cancelled"}

Succeeded == Exited /\ inv.cmd \in Cmds /\ inv.outcome = "success"

\* The cursor the database holds now.
Cursor == CursorOfRows(db.rows)

\* The catalog as a fresh listing would give it now.
Catalog == DirNamesOf(entries)

\* The scripts of one kind of the first n units of a sequence.
ScriptsOf(units, n, kind) == [i \in 1..n |-> Script(units[i], kind)]

\* The transaction failed while the server ran the SQL or the cursor UPDATE.
FailedInSqlOrUpdate ==
    /\ inv.pc \in {"catch", "exited"}
    /\ Len(wire.sent) >= 2
    /\ wire.sent[1] = "BEGIN" /\ wire.sent[2] = "SQL"
    /\ \A i \in 1..Len(wire.sent) : wire.sent[i] # "COMMIT"

(***************************************************************************)
(* C1  Atomicity.  When the concatenated SQL or the cursor UPDATE fails,   *)
(* at whatever position, the database holds the cursor and the applied     *)
(* units it held before the operation, and the operation has sent ROLLBACK *)
(* by the time it exits.                                                    *)
(***************************************************************************)
C1_FailureLeavesNothingApplied ==
    FailedInSqlOrUpdate =>
        /\ Cursor = inv.cursor
        /\ db.rows = DbBootstrap(pre).rows
        /\ db.applied = pre.applied
        /\ Exited => /\ wire.sent[Len(wire.sent)] = "ROLLBACK"
                     /\ inv.outcome = "txFailed"
                     /\ session = IdleSession

\* A three-unit range whose third script failed after two had run.
C1_Witness ==
    /\ FailedInSqlOrUpdate /\ Exited
    /\ Len(inv.migrationDirPaths) = 3
    /\ Len(wire.ran) = 2
    /\ wire.sent = <<"BEGIN", "SQL", "ROLLBACK">>

(***************************************************************************)
(* C2  The units whose commit script is applied are exactly the catalog    *)
(* units at indices 0..cursor, each applied once, in every state reached   *)
(* by create, commit and rollback invocations from a clean database.       *)
(***************************************************************************)
C2_AppliedIsCatalogPrefix ==
    /\ Cursor \in -1..(Len(Catalog) - 1)
    /\ \A i \in 1..Len(Catalog) :
           db.applied[Catalog[i]] = IF i - 1 <= Cursor THEN 1 ELSE 0
    /\ \A u \in Units :
           (\A i \in 1..Len(Catalog) : Catalog[i] # u) => db.applied[u] = 0

\* A rollback that stopped inside the applied prefix, after a commit.
C2_Witness ==
    /\ Succeeded /\ inv.cmd = "rollback" /\ lastOp.cmd = "commit"
    /\ Cursor = 1 /\ inv.cursor = 2 /\ Len(Catalog) = 4

(***************************************************************************)
(* C3  For commit, the subset is C[k+1:] in ascending order, and it is     *)
(* empty exactly when k = len(C) - 1.                                       *)
(***************************************************************************)
C3_ForwardSubset ==
    LET C == inv.dirNames
        k == inv.cursor
    IN  (CursorRead /\ inv.cmd = "commit" /\ -1 <= k /\ k < Len(C)) =>
            /\ inv.subset = [i \in 1..(Len(C) - k - 1) |-> C[k + 1 + i]]
            /\ inv.subset = <<>> <=> k = Len(C) - 1

\* Cursor 1 in a catalog of four: the subset is the last two units.
C3_Witness ==
    /\ CursorRead /\ inv.cmd = "commit"
    /\ Len(inv.dirNames) = 4 /\ inv.cursor = 1
    /\ inv.subset = <<inv.dirNames[3], inv.dirNames[4]>>

(***************************************************************************)
(* C4  For rollback, the subset is reverse(C[0:k+1]), the most recently    *)
(* applied unit first, and it is empty exactly when k = -1.                 *)
(***************************************************************************)
C4_BackwardSubset ==
    LET C == inv.dirNames
        k == inv.cursor
    IN  (CursorRead /\ inv.cmd = "rollback" /\ -1 <= k /\ k < Len(C)) =>
            /\ inv.subset = [i \in 1..(k + 1) |-> C[k + 2 - i]]
            /\ inv.subset = <<>> <=> k = -1

\* Cursor 2 in a catalog of four: the subset is C, B, A.
C4_Witness ==
    /\ CursorRead /\ inv.cmd = "rollback"
    /\ Len(inv.dirNames) = 4 /\ inv.cursor = 2
    /\ inv.subset = <<inv.dirNames[3], inv.dirNames[2], inv.dirNames[1]>>

(***************************************************************************)
(* C5  A commit to offset s runs the commit scripts of Subset[0..s], in    *)
(* that order, and writes the catalog index of Subset[s], cursor + 1 + s.  *)
(***************************************************************************)
C5_CommitToOffset ==
    LET s == inv.migrateTo
        k == inv.cursor
    IN  (PointChosen /\ inv.cmd = "commit") =>
            /\ s \in 0..(Len(inv.subset) - 1)
            /\ inv.migrationDirPaths = SubSeq(inv.subset, 1, s + 1)
            /\ inv.newCursor = k + 1 + s
            /\ inv.newCursor \in 0..(Len(inv.dirNames) - 1)
            /\ inv.dirNames[inv.newCursor + 1] = inv.subset[s + 1]
            /\ Succeeded =>
                   /\ wire.ran = ScriptsOf(inv.subset, s + 1, CommitFile)
                   /\ Cursor = k + 1 + s
                   /\ db.applied = AppliedPlus(pre.applied, SubSeq(inv.subset, 1, s + 1), 1)

\* Catalog [A, B, C, D], cursor -1, offset 1: A then B run, cursor 1.
C5_Witness ==
    /\ Succeeded /\ inv.cmd = "commit" /\ ~inv.all
    /\ Len(inv.dirNames) = 4 /\ inv.cursor = -1 /\ inv.migrateTo = 1
    /\ inv.sql = <<Script(inv.dirNames[1], CommitFile), Newline,
                   Script(inv.dirNames[2], CommitFile), Newline>>
    /\ Cursor = 1

(***************************************************************************)
(* C6  A rollback to offset s runs the rollback scripts of Subset[0..s],   *)
(* the most recent first, and writes the catalog index of Subset[s] less   *)
(* one, cursor - s - 1, which is never below -1.                            *)
(***************************************************************************)
C6_RollbackToOffset ==
    LET s == inv.migrateTo
        k == inv.cursor
    IN  (PointChosen /\ inv.cmd = "rollback") =>
            /\ s \in 0..(Len(inv.subset) - 1)
            /\ inv.migrationDirPaths = SubSeq(inv.subset, 1, s + 1)
            /\ inv.newCursor = k - s - 1
            /\ inv.newCursor \in -1..(Len(inv.dirNames) - 2)
            /\ inv.dirNames[inv.newCursor + 2] = inv.subset[s + 1]
            /\ Succeeded =>
                   /\ wire.ran = ScriptsOf(inv.subset, s + 1, RollbackFile)
                   /\ \A i \in 1..(s + 1) : wire.ran[i].unit = inv.dirNames[k + 2 - i]
                   /\ Cursor = k - s - 1
                   /\ db.applied = AppliedPlus(pre.applied, SubSeq(inv.subset, 1, s + 1), -1)

\* Catalog [A, B, C, D], cursor 2, offset 1: C then B rolled back, cursor 0.
C6_Witness ==
    /\ Succeeded /\ inv.cmd = "rollback" /\ ~inv.all
    /\ Len(inv.dirNames) = 4 /\ inv.cursor = 2 /\ inv.migrateTo = 1
    /\ inv.sql = <<Script(inv.dirNames[3], RollbackFile), Newline,
                   Script(inv.dirNames[2], RollbackFile), Newline>>
    /\ Cursor = 0

(***************************************************************************)
(* C7  Round trip.  A successful rollback to offset s that follows a       *)
(* successful commit to offset s restores the cursor the commit started    *)
(* from, and runs the rollback scripts of exactly the units the commit     *)
(* applied, in reverse order.                                               *)
(***************************************************************************)
C7_RoundTrip ==
    (/\ Succeeded /\ inv.cmd = "rollback"
     /\ lastOp.cmd = "commit" /\ lastOp.acked /\ inv.migrateTo = lastOp.migrateTo) =>
        /\ Cursor = lastOp.before
        /\ Len(wire.ran) = Len(lastOp.units)
        /\ wire.ran = ScriptsOf(JsReverse(lastOp.units), Len(lastOp.units), RollbackFile)
        /\ db.applied = AppliedPlus(pre.applied, lastOp.units, -1)

\* Commit from cursor 0 to offset 1, then rollback to offset 1: cursor 0 again.
C7_Witness ==
    /\ Succeeded /\ inv.cmd = "rollback"
    /\ lastOp.cmd = "commit" /\ lastOp.acked /\ lastOp.before = 0 /\ lastOp.migrateTo = 1
    /\ inv.migrateTo = 1 /\ inv.cursor = 2 /\ Cursor = 0

(***************************************************************************)
(* C8  With the cursor at len(Catalog) - 1 a commit, and with the cursor   *)
(* at -1 a rollback, is a no-op: it exits with status 0, without the       *)
(* selection, without a transaction and without writing the cursor.        *)
(***************************************************************************)
C8_EmptySubsetIsNoOp ==
    (/\ CursorRead
     /\ \/ inv.cmd = "commit" /\ inv.cursor = Len(inv.dirNames) - 1
        \/ inv.cmd = "rollback" /\ inv.cursor = -1) =>
        /\ inv.subset = <<>>
        /\ Exited /\ inv.outcome = "noop" /\ inv.exitCode = 0
        /\ wire.gate = 0 /\ wire.sent = <<>> /\ wire.ran = <<>>
        /\ session = IdleSession
        /\ db.rows = DbBootstrap(pre).rows
        /\ db.applied = pre.applied

\* Cursor 3 on a catalog of four units: already fully migrated.
C8_Witness ==
    /\ Exited /\ inv.cmd = "commit" /\ inv.outcome = "noop"
    /\ Len(inv.dirNames) = 4 /\ inv.cursor = 3 /\ Cursor = 3

(***************************************************************************)
(* C9  With --all the selection is never invoked and the migration point   *)
(* is the last offset of the subset: a successful commit leaves the cursor *)
(* at len(Catalog) - 1 and a successful rollback leaves it at -1.          *)
(***************************************************************************)
C9_AllIsLastOffset ==
    (inv.cmd \in Cmds /\ inv.all) =>
        /\ wire.gate = 0 /\ inv.pc # "select" /\ ~wire.cancelled
        /\ PointChosen =>
               /\ inv.migrateTo = Len(inv.subset) - 1
               /\ inv.migrationDirPaths = inv.subset
        /\ Succeeded =>
               Cursor = IF inv.cmd = "commit" THEN Len(inv.dirNames) - 1 ELSE -1

\* commit --all from cursor 0 on a catalog of four units.
C9_Witness ==
    /\ Succeeded /\ inv.all /\ inv.cmd = "commit"
    /\ Len(inv.dirNames) = 4 /\ inv.cursor = 0 /\ Cursor = 3
    /\ Len(wire.ran) = 3

(***************************************************************************)
(* C10  A cancelled selection ends the operation with no transaction       *)
(* begun and no script run; the cursor and the applied units are those of  *)
(* before the invocation.  The one change the database may show is the     *)
(* bootstrap, which runs before the selection: on a database that had no   *)
(* _migrations table or row, the table and its row holding -1 now exist.   *)
(***************************************************************************)
C10_CancelKeepsCursorAndUnits ==
    wire.cancelled =>
        /\ Exited /\ inv.outcome = "cancelled"
        /\ wire.sent = <<>> /\ wire.ran = <<>>
        /\ session = IdleSession
        /\ db = DbBootstrap(pre)
        /\ Cursor = CursorOfRows(pre.rows)
        /\ db.applied = pre.applied
        /\ (pre.table /\ pre.rows # <<>>) => db = pre

\* C10 as stated: after a cancelled selection the database, cursor store
\* included, is exactly as it was when the invocation started.
C10_CancelLeavesDatabaseUntouched ==
    wire.cancelled =>
        /\ Exited
        /\ wire.sent = <<>> /\ wire.ran = <<>>
        /\ db = pre

\* The first invocation against a database never bootstrapped, cancelled.
C10_Witness ==
    /\ wire.cancelled /\ Exited
    /\ ~pre.table /\ db.table /\ db.rows = <<-1>>
    /\ Len(inv.subset) >= 2

(***************************************************************************)
(* C11  When listing a selected unit's directory or reading a selected     *)
(* script fails, the operation ends with status 1 before its transaction: *)
(* none of BEGIN, the SQL, the UPDATE, COMMIT and ROLLBACK is sent, no     *)
(* session is left in a block, and the cursor and the applied units are    *)
(* those of before the invocation.                                         *)
(***************************************************************************)
C11_ReadFailureSendsNothing ==
    wire.readFailed =>
        /\ Exited /\ inv.outcome = "readError" /\ inv.exitCode = 1
        /\ wire.sent = <<>> /\ wire.ran = <<>>
        /\ session = IdleSession
        /\ db = DbBootstrap(pre)
        /\ Cursor = CursorOfRows(pre.rows)
        /\ db.applied = pre.applied

\* A rollback of two applied units whose script read fails after the listings.
C11_Witness ==
    /\ wire.readFailed /\ Exited
    /\ inv.cmd = "rollback" /\ Len(inv.migrations) = 2
    /\ Cursor = 1 /\ pre.rows = <<1>>

(***************************************************************************)
(* C12  Bootstrapping the cursor store any number of times in sequence,   *)
(* with successful operations in between, never yields more than one row  *)
(* and never resets a cursor: once the bootstrap has run the store holds  *)
(* exactly one row, and on a store that already held a row the bootstrap  *)
(* changes nothing.                                                        *)
(***************************************************************************)
C12_BootstrapIsIdempotent ==
    /\ Len(db.rows) <= 1
    /\ Len(session.work.rows) <= 1
    /\ (inv.cmd \in Cmds /\ inv.pc = "readdir") =>
           /\ db.table /\ Len(db.rows) = 1
           /\ db = DbBootstrap(db)
           /\ (pre.table /\ pre.rows # <<>>) => db = pre
           /\ (lastOp.cmd \in Cmds /\ lastOp.acked) => Cursor = lastOp.after

\* The bootstrap of an invocation that follows a successful commit of three
\* units: the cursor is still 2.
C12_Witness ==
    /\ inv.cmd \in Cmds /\ inv.pc = "readdir"
    /\ lastOp.cmd = "commit" /\ lastOp.acked /\ lastOp.after = 2
    /\ pre.rows = <<2>> /\ db.rows = <<2>>

(***************************************************************************)
(* C14  At every moment of an operation, what any other session can read  *)
(* is either the state of before the transaction, with the old cursor and *)
(* none of the scripts' effects, or the state after it, with the new      *)
(* cursor and the effects of every selected script; the second only once  *)
(* the server has made COMMIT durable.                                     *)
(***************************************************************************)
C14_OthersSeeOldOrNew ==
    PointChosen =>
        LET old == DbBootstrap(pre)
            new == [old EXCEPT
                       !.rows = <<inv.newCursor>>,
                       !.applied = AppliedPlus(old.applied, inv.migrationDirPaths,
                                               IF inv.cmd = "commit" THEN 1 ELSE -1)]
        IN  /\ db = IF wire.durable THEN new ELSE old
            /\ wire.durable => wire.sent[Len(wire.sent)] \in {"COMMIT", "ROLLBACK"}

\* Two scripts and the UPDATE have run in the block, COMMIT is not yet sent:
\* the session sees cursor 1 and two units applied, the others see neither.
C14_Witness ==
    /\ inv.pc = "commit" /\ inv.cmd = "commit" /\ inv.cursor = -1
    /\ Len(inv.migrationDirPaths) = 2
    /\ session.state = "open" /\ session.work.rows = <<1>>
    /\ session.work.applied # db.applied
    /\ db.rows = <<-1>> /\ db.applied = pre.applied

(***************************************************************************)
(* C18  The SQL text of an operation is the texts of the selected units'  *)
(* scripts in the order of the resolved subset, each followed by one      *)
(* newline, whatever the order in which the reads of the listings and of  *)
(* the files complete.                                                     *)
(***************************************************************************)
C18_SqlInSubsetOrder ==
    LET n == Len(inv.migrationDirPaths)
        read == \/ inv.pc \in {"connect", "begin", "sql", "update", "commit", "catch"}
                \/ Exited /\ inv.outcome \in {"clientRejected", "txFailed", "success"}
    IN  (inv.cmd \in Cmds /\ read) =>
            /\ n >= 1
            /\ inv.migrationDirPaths = SubSeq(inv.subset, 1, n)
            /\ Len(inv.migrations) = n
            /\ Len(inv.sql) = 2 * n
            /\ \A i \in 1..n :
                   /\ inv.migrations[i].dir = inv.subset[i]
                   /\ inv.sql[2 * i - 1] = readFileAsync(inv.migrations[i])
                   /\ inv.sql[2 * i - 1].unit = inv.subset[i]
                   /\ inv.sql[2 * i] = Newline

\* Three rollback scripts whose reads completed out of order.
C18_Witness ==
    /\ inv.pc = "connect" /\ wire.shuffled
    /\ inv.cmd = "rollback" /\ Len(inv.migrations) = 3
    /\ inv.sql[1].unit = inv.subset[1] /\ inv.sql[5].unit = inv.subset[3]

(***************************************************************************)
(* C19  An operation that ends in success has sent exactly BEGIN, the     *)
(* concatenated SQL, the cursor UPDATE and COMMIT, in that order and once *)
(* each; every statement of the SQL ran, the store holds the new cursor,  *)
(* and the invocation that follows reads that value.                      *)
(***************************************************************************)
C19_SuccessIsOneWholeTransaction ==
    /\ Succeeded =>
           /\ wire.sent = <<"BEGIN", "SQL", "UPDATE", "COMMIT">>
           /\ wire.ran = Statements(inv.sql)
           /\ wire.durable
           /\ session = IdleSession
           /\ db.rows = <<inv.newCursor>>
    /\ (CursorRead /\ lastOp.cmd \in Cmds /\ lastOp.acked) =>
           inv.cursor = lastOp.after

\* A rollback that has read cursor 2, the value written by the successful
\* commit of three units before it, and has itself succeeded.
C19_Witness ==
    /\ Succeeded /\ inv.cmd = "rollback"
    /\ lastOp.cmd = "commit" /\ lastOp.acked
    /\ lastOp.before = -1 /\ lastOp.after = 2
    /\ inv.cursor = 2 /\ inv.newCursor = 0 /\ Cursor = 0

(***************************************************************************)
(* C20  Every operation whose transaction failed, in BEGIN, the SQL, the  *)
(* UPDATE or COMMIT, ends with the failure outcome and a non-zero exit    *)
(* status, also when the ROLLBACK sent by the catch fails too.             *)
(***************************************************************************)
C20_TransactionFailureExitsNonZero ==
    (Exited /\ inv.cmd \in Cmds /\ wire.sent # <<>> /\ inv.outcome # "success") =>
        /\ inv.outcome = "txFailed"
        /\ inv.exitCode # 0

(***************************************************************************)
(* C16  In whatever order the platform lists the folder, the catalog an   *)
(* invocation works on is the folder's names without the hidden ones, in  *)
(* ascending order.                                                        *)
(***************************************************************************)
C16_CatalogIsSortedListing ==
    LET n == Len(inv.dirNames) IN
    CursorRead =>
        /\ {inv.dirNames[i] : i \in 1..n} = {e \in entries : ~startsWithDot(e)}
        /\ n = Cardinality({e \in entries : ~startsWithDot(e)})
        /\ \A i, j \in 1..n : i < j => NameBefore(inv.dirNames[i], inv.dirNames[j])

(***************************************************************************)
(* C17  A commit runs the commit script of every selected unit and a      *)
(* rollback the rollback script, in whatever order a unit's directory is  *)
(* listed and whatever else the directory holds.                           *)
(***************************************************************************)
C17_ScriptOfTheCommandsKind ==
    LET kind == IF inv.cmd = "commit" THEN CommitFile ELSE RollbackFile
        picked == \/ inv.pc \in {"readFiles", "connect", "begin", "sql", "update",
                                 "commit", "catch"}
                  \/ Exited /\ inv.outcome \in {"clientRejected", "txFailed", "success"}
    IN  (inv.cmd \in Cmds /\ picked) =>
            /\ \A i \in 1..Len(inv.migrations) : inv.migrations[i].file = kind
            /\ \A i \in 1..Len(wire.ran) : wire.ran[i].kind = kind

(***************************************************************************)
(* C13  When several processes run the bootstrap at the same time on a    *)
(* database that holds no cursor row yet, the store never holds more than *)
(* one row, and once a process is past its bootstrap it holds exactly one. *)
(***************************************************************************)
C13_ConcurrentBootstrapKeepsOneRow ==
    /\ Len(db.rows) <= 1
    /\ \A p \in Procs :
           (peers[p].pc \in {"readCursor", "begin", "update", "commit"}
                \/ peers[p].outcome \in {"noop", "success", "txFailed"}) =>
               db.table /\ Len(db.rows) = 1

(***************************************************************************)
(* C15  Two invocations that both read the cursor before either commits   *)
(* both run to their COMMIT; the cursor the store then holds is the one   *)
(* written by the transaction that committed last.                         *)
(***************************************************************************)
C15_LastCommitterWins ==
    \A p \in Procs :
        (peers[p].outcome = "success" /\ peers[p].seq = LastSeq /\ Len(db.rows) = 1) =>
            Cursor = peers[p].newCursor

\* Both processes read cursor -1 and both committed: the first unit's commit
\* script has run twice, and the cursor is that of the later commit, behind
\* the second unit that the earlier one applied.
C15_Witness ==
    /\ \A p \in Procs : /\ peers[p].outcome = "success"
                        /\ peers[p].cmd = "commit" /\ peers[p].cursor = -1
    /\ \E p, q \in Procs :
           /\ peers[p].seq < peers[q].seq
           /\ peers[p].newCursor = 1 /\ peers[q].newCursor = 0
    /\ Cursor = 0
    /\ \E u \in Units : db.applied[u] = 2
    /\ \E u \in Units : db.applied[u] = 1 /\ u = DirNamesOf(entries)[2]

(***************************************************************************)
(* C21  A commit or rollback contacts the database only after the listing *)
(* of the migrations folder has succeeded: while the listing is not yet   *)
(* obtained, and when it failed, no connection test, bootstrap statement  *)
(* or cursor read has been issued and the database is as it was.          *)
(***************************************************************************)
C21_NoDatabaseContactBeforeListing ==
    LET unlisted == \/ inv.pc \in {"connTest", "bootstrap", "readdir"}
                    \/ Exited /\ inv.outcome \in {"connError", "bootstrapRejected",
                                                  "catalogError"}
    IN  (inv.cmd \in Cmds /\ unlisted) =>
            /\ \A i \in 1..Len(wire.contact) :
                   wire.contact[i] \notin {"SELECT 1", "BOOTSTRAP", "SELECT cursor"}
            /\ db = pre

(***************************************************************************)
(* C22  A subset that holds at least one unit is never taken for a no-op, *)
(* whatever the names of the catalog, a name that is a numeral such as    *)
(* "0" included: the early return does not fire for it and the operation  *)
(* goes on to the selection or the application.                            *)
(***************************************************************************)
C22_NonEmptySubsetIsNoNoOp ==
    (CursorRead /\ Len(inv.subset) >= 1) =>
        /\ ~AlreadyThere(inv.subset)
        /\ inv.outcome # "noop"

\* A commit or rollback is between its start and its exit.
Running == inv.cmd \in Cmds /\ ~NotRunning

\* What the invocation sent on its transaction client: a beginning of BEGIN,
\* SQL, UPDATE, COMMIT, with one ROLLBACK after it when the catch ran.
SentOnce ==
    LET whole == <<"BEGIN", "SQL", "UPDATE", "COMMIT">>
    IN  \E n \in 0..4 :
            \/ wire.sent = SubSeq(whole, 1, n)
            \/ n >= 1 /\ wire.sent = Append(SubSeq(whole, 1, n), "ROLLBACK")

\* No call outside the transaction was made twice.
ContactOnce ==
    \A i, j \in 1..Len(wire.contact) : wire.contact[i] = wire.contact[j] => i = j

(***************************************************************************)
(* C23  Every commit or rollback ends, given that each call it awaits     *)
(* settles: a running invocation can always take its next step, every     *)
(* step moves it forward in the text of commitOrRollback, and none is     *)
(* taken twice.  On every path it sends BEGIN at most once, what it sends *)
(* is a beginning of BEGIN, SQL, UPDATE, COMMIT, followed after a failure *)
(* by one ROLLBACK and nothing more, and it contacts the database outside *)
(* the transaction once per statement.                                     *)
(***************************************************************************)
C23_EndsWithAtMostOneTransaction ==
    /\ [](inv.cmd \in Cmds => SentOnce /\ ContactOnce)
    /\ [](Running => ENABLED Proceed)
    /\ [][Running => /\ inv'.cmd = inv.cmd
                     /\ PcRank(inv'.pc) > PcRank(inv.pc)
                     /\ Len(wire'.sent) \in {Len(wire.sent), Len(wire.sent) + 1}
                     /\ (inv.pc = "catch" => inv'.pc = "exited")]_vars

\* A rollback whose second script failed: BEGIN, the SQL and ROLLBACK were
\* sent, once each, and the invocation has ended.
C23_Witness ==
    /\ Exited /\ inv.cmd = "rollback" /\ inv.outcome = "txFailed"
    /\ wire.sent = <<"BEGIN", "SQL", "ROLLBACK">>
    /\ Len(wire.ran) = 1 /\ Len(inv.migrations) = 2
====
